---- MODULE Spec2Model ----
(***************************************************************************)
(* Network provisioning of the LXE shim: the random-probe IPv4 allocator   *)
(* FindFreeIP, its caller FindFreeIPBridgeLXD, and the bridge reconciler   *)
(* EnsureBridge talking to the LXD server.                                 *)
(*                                                                         *)
(* The repository holds two texts of FindFreeIP / FindFreeIPBridgeLXD /    *)
(* EnsureBridge: src/lxf/networking.go and the second half of              *)
(* src/unnamed/part_000.  They differ in how FindFreeIP defaults start and *)
(* end and in the comparison that bounds a candidate.  The variable        *)
(* `variant` says which text a behaviour runs; every property is checked   *)
(* for both.                                                               *)
(*                                                                         *)
(* A net.IP is modelled as what it is: a byte slice of length 4 or 16 (or  *)
(* nil, the empty sequence).  bytes.Compare and IP.Equal are modelled on   *)
(* the slices, because the code applies them to slices of both lengths.    *)
(***************************************************************************)
EXTENDS Integers, Sequences, FiniteSets, TLC

VARIABLES
    variant,    \* which source text is running: "lxf" or "part000"
    ffpc,       \* FindFreeIP: "idle", "probing" (inside the for loop), "done"
    call,       \* FindFreeIP: the arguments as the caller passed them
    subnet,     \* FindFreeIP: the caller's *net.IPNet object (IP, Mask)
    leases,     \* FindFreeIP: the local leases slice after the append
    start,      \* FindFreeIP: local start after defaulting
    end,        \* FindFreeIP: local end after defaulting
    trial,      \* FindFreeIP: the candidate of the latest loop iteration
    ip,         \* FindFreeIP: the returned address (nil until it returns)
    srvUp,      \* LXD server: whether it answers calls
    srvNet,     \* LXD server: the network resource behind the bridge's name
    srvLeases,  \* LXD server: the lease table of that network
    eb,         \* EnsureBridge: the frame of the call in progress
    fb,         \* FindFreeIPBridgeLXD: the frame of the call in progress
    prev,       \* the last EnsureBridge call that returned nil, and what it left
    others,     \* writes made so far by other clients of the server
    sandbox,    \* the sandbox: ModeData["result"] of the object and of the stored copy
    cnet,       \* the container network: its state and the network under it
    cni,        \* AttachCNI / DetachCNI / container network call in progress
    second      \* FindFreeIPBridgeLXD run by a second caller: its frame

ffvars == <<ffpc, call, subnet, leases, start, end, trial, ip>>

brvars == <<srvUp, srvNet, srvLeases, eb, fb, prev, others>>

cnivars == <<sandbox, cnet, cni>>

vars == <<variant, ffpc, call, subnet, leases, start, end, trial, ip,
          srvUp, srvNet, srvLeases, eb, fb, prev, others, sandbox, cnet, cni,
          second>>

Variants == {"lxf", "part000"}

(***************************************************************************)
(* Bytes and the bit operations the code applies to them.                  *)
(***************************************************************************)
Byte == 0..255

Bit(x, i) == (x \div (2^i)) % 2

\* the bit of weight 2^i of a & b, a | b and a &^ b, from the bits of a and b
BitAnd(a, b, i) == Bit(a, i) * Bit(b, i)

BitOrNot(a, b, i) == IF Bit(a, i) = 1 \/ Bit(b, i) = 0 THEN 1 ELSE 0

BitAndNot(a, b, i) == Bit(a, i) * (1 - Bit(b, i))

\* the bytes a prefix mask is made of: 0, 128, 192, ..., 255
MaskBytes == {256 - 2^k : k \in 0..8}

\* v &^ m on bytes (Go's AND NOT), tabulated for mask bytes m
AndNot == [v \in Byte, m \in MaskBytes |->
              BitAndNot(v, m, 0) + 2*BitAndNot(v, m, 1) + 4*BitAndNot(v, m, 2)
              + 8*BitAndNot(v, m, 3) + 16*BitAndNot(v, m, 4) + 32*BitAndNot(v, m, 5)
              + 64*BitAndNot(v, m, 6) + 128*BitAndNot(v, m, 7)]

\* a | ^m on bytes
OrNot == [a \in Byte, m \in MaskBytes |->
             BitOrNot(a, m, 0) + 2*BitOrNot(a, m, 1) + 4*BitOrNot(a, m, 2)
             + 8*BitOrNot(a, m, 3) + 16*BitOrNot(a, m, 4) + 32*BitOrNot(a, m, 5)
             + 64*BitOrNot(a, m, 6) + 128*BitOrNot(a, m, 7)]

\* a & m on bytes
And == [a \in Byte, m \in MaskBytes |->
           BitAnd(a, m, 0) + 2*BitAnd(a, m, 1) + 4*BitAnd(a, m, 2)
           + 8*BitAnd(a, m, 3) + 16*BitAnd(a, m, 4) + 32*BitAnd(a, m, 5)
           + 64*BitAnd(a, m, 6) + 128*BitAnd(a, m, 7)]

(***************************************************************************)
(* net.IP values.                                                          *)
(***************************************************************************)
nil == <<>>

v4InV6Prefix == <<0, 0, 0, 0, 0, 0, 0, 0, 0, 0, 255, 255>>

\* net.IPv4(a, b, c, d): the 16-byte form of an IPv4 address
IPv4(a, b, c, d) == v4InV6Prefix \o <<a, b, c, d>>

\* the 16-byte form of a 4-byte address
To16(a) == IPv4(a[1], a[2], a[3], a[4])

\* IP.To4: the 4-byte form, or nil when the slice is no IPv4 address
To4(x) ==
    IF Len(x) = 4 THEN x
    ELSE IF Len(x) = 16 /\ SubSeq(x, 1, 12) = v4InV6Prefix THEN SubSeq(x, 13, 16)
    ELSE nil

\* IP.Equal: equal as addresses, whatever the two lengths
Equal(x, y) ==
    IF Len(x) = Len(y) THEN x = y
    ELSE IF Len(x) = 4 /\ Len(y) = 16
         THEN SubSeq(y, 1, 12) = v4InV6Prefix /\ x = SubSeq(y, 13, 16)
    ELSE IF Len(x) = 16 /\ Len(y) = 4
         THEN SubSeq(x, 1, 12) = v4InV6Prefix /\ SubSeq(x, 13, 16) = y
    ELSE FALSE

\* bytes.Compare: lexicographic order of two byte slices, as -1, 0, 1
RECURSIVE Compare(_, _)
Compare(a, b) ==
    IF a = <<>> THEN (IF b = <<>> THEN 0 ELSE -1)
    ELSE IF b = <<>> THEN 1
    ELSE IF Head(a) < Head(b) THEN -1
    ELSE IF Head(a) > Head(b) THEN 1
    ELSE Compare(Tail(a), Tail(b))

\* x[3]++ and x[3]-- on a byte slice (Go indexes from 0, bytes wrap)
Inc3(x) == [x EXCEPT ![4] = (@ + 1) % 256]

Dec3(x) == [x EXCEPT ![4] = (@ + 255) % 256]

(***************************************************************************)
(* net.IPNet values and the texts they are parsed from and printed to.     *)
(* A text is a record: CIDRText(a, n) is "a1.a2.a3.a4/n", IPText(a) is     *)
(* "a1.a2.a3.a4", Lit(s) is any other string s.                            *)
(***************************************************************************)
Lit(s) == [kind |-> "lit", lit |-> s, addr |-> <<>>, bits |-> 0]

CIDRText(a, n) == [kind |-> "cidr", lit |-> "", addr |-> a, bits |-> n]

IPText(a) == [kind |-> "ip", lit |-> "", addr |-> a, bits |-> 0]

\* net.CIDRMask(n, 32)
CIDRMask(n) ==
    [i \in 1..4 |->
        LET k == IF n - 8*(i - 1) < 0 THEN 0
                 ELSE IF n - 8*(i - 1) > 8 THEN 8 ELSE n - 8*(i - 1)
        IN  256 - 2^(8 - k)]

\* the prefix length of a mask made by CIDRMask
Ones(m) == CHOOSE n \in 0..32 : CIDRMask(n) = m

\* IP.Mask on a 4-byte address
MaskIP(a, m) == [i \in 1..4 |-> And[a[i], m[i]]]

NoNet == [IP |-> nil, Mask |-> nil]

\* net.ParseIP: the 16-byte form, or nil for a text that is no address
ParseIP(s) ==
    IF s.kind = "ip" /\ Len(s.addr) = 4 /\ \A i \in 1..4 : s.addr[i] \in Byte
    THEN To16(s.addr)
    ELSE nil

\* net.ParseCIDR: the address in 16-byte form and the network with the
\* address masked, both parts of the network 4 bytes long
ParseCIDR(s) ==
    IF /\ s.kind = "cidr"
       /\ Len(s.addr) = 4
       /\ \A i \in 1..4 : s.addr[i] \in Byte
       /\ s.bits \in 0..32
    THEN [err |-> FALSE,
          ip  |-> To16(s.addr),
          net |-> [IP |-> MaskIP(s.addr, CIDRMask(s.bits)), Mask |-> CIDRMask(s.bits)]]
    ELSE [err |-> TRUE, ip |-> nil, net |-> NoNet]

\* IPNet.String of a network whose IP is 4 bytes long
NetString(n) == CIDRText(n.IP, Ones(n.Mask))

(***************************************************************************)
(* FindFreeIP.                                                             *)
(***************************************************************************)
\* the broadcast address computed at the top of FindFreeIP
BroadcastOf(S) == [i \in 1..4 |-> OrNot[S.IP[i], S.Mask[i]]]

\* src/lxf/networking.go: networkIP, start and the appended lease share the
\* array of subnet.IP, so start[3]++ changes all of them; end and the other
\* appended lease share the array of broadcastIP
Enter_lxf(S, R, s, e) ==
    LET networkIP   == IF s = nil THEN Inc3(S.IP) ELSE S.IP
        broadcastIP == IF e = nil THEN Dec3(BroadcastOf(S)) ELSE BroadcastOf(S)
    IN  [subnet |-> [S EXCEPT !.IP = networkIP],
         leases |-> R \o <<networkIP, broadcastIP>>,
         start  |-> IF s = nil THEN networkIP ELSE s,
         end    |-> IF e = nil THEN broadcastIP ELSE e]

\* src/unnamed/part_000: the defaults are fresh 16-byte addresses
Enter_part000(S, R, s, e) ==
    LET networkIP   == S.IP
        broadcastIP == BroadcastOf(S)
    IN  [subnet |-> S,
         leases |-> R \o <<networkIP, broadcastIP>>,
         start  |-> IF s = nil
                    THEN IPv4(networkIP[1], networkIP[2], networkIP[3],
                              (networkIP[4] + 1) % 256)
                    ELSE s,
         end    |-> IF e = nil
                    THEN IPv4(broadcastIP[1], broadcastIP[2], broadcastIP[3],
                              (broadcastIP[4] + 255) % 256)
                    ELSE e]

Enter(v, S, R, s, e) ==
    IF v = "lxf" THEN Enter_lxf(S, R, s, e) ELSE Enter_part000(S, R, s, e)

\* the candidate made of a drawn value v (its four little-endian bytes)
TrialOf(S, v) ==
    IPv4((S.IP[1] + AndNot[v[1], S.Mask[1]]) % 256,
         (S.IP[2] + AndNot[v[2], S.Mask[2]]) % 256,
         (S.IP[3] + AndNot[v[3], S.Mask[3]]) % 256,
         (S.IP[4] + AndNot[v[4], S.Mask[4]]) % 256)

\* "not allowed if outside explicitly defined range", negated
InRange_lxf(t, s, e) == ~(Compare(t, s) < 0 \/ Compare(t, e) > 0)

InRange_part000(t, s, e) == ~(Compare(t, s) <= 0 \/ Compare(t, e) >= 0)

InRange(v, t, s, e) ==
    IF v = "lxf" THEN InRange_lxf(t, s, e) ELSE InRange_part000(t, s, e)

\* "not allowed if already exists in current leases"
Leased(t, L) == \E i \in 1..Len(L) : Equal(t, L[i])

(***************************************************************************)
(* The LXD server's network resource and the values EnsureBridge makes.    *)
(* A configuration is a map from keys to texts.                            *)
(***************************************************************************)
EmptyConfig == [k \in {} |-> Lit("")]

\* Go's map lookup: the zero value "" for a missing key
Get(cfg, k) == IF k \in DOMAIN cfg THEN cfg[k] ELSE Lit("")

\* strconv.FormatBool
FormatBool(b) == Lit(IF b THEN "true" ELSE "false")

NoPut == [Description |-> "", Config |-> EmptyConfig]

\* no resource under the name
Absent ==
    [exists |-> FALSE, Type |-> "", Managed |-> FALSE,
     Description |-> "", Config |-> EmptyConfig]

\* a slip: the address is stepped from the one the bridge already has
BridgeAddress_drift(cidr) ==
    IF cidr = Lit("") THEN Lit("auto")
    ELSE LET n   == ParseCIDR(cidr).net
             cur == ParseCIDR(Get(srvNet.Config, "ipv4.address"))
         IN  IF cur.err
             THEN NetString([IP |-> Inc3(n.IP), Mask |-> n.Mask])
             ELSE NetString([IP |-> Inc3(To4(cur.ip)), Mask |-> cur.net.Mask])

\* a slip: the address given is stepped, not the network's
BridgeAddress_unmasked(cidr) ==
    IF cidr = Lit("") THEN Lit("auto")
    ELSE LET p == ParseCIDR(cidr)
         IN  NetString([IP |-> Inc3(To4(p.ip)), Mask |-> p.net.Mask])

\* the address EnsureBridge asks for: "auto", or the cidr's network with
\* net.IP[3]++ printed by net.String()
BridgeAddress(cidr) ==
    IF cidr = Lit("") THEN Lit("auto")
    ELSE LET n == ParseCIDR(cidr).net
         IN  NetString([IP |-> Inc3(n.IP), Mask |-> n.Mask])

\* a slip: NAT follows the nat argument
DesiredPut_nat(address, nat) ==
    [Description |-> "managed by LXE, default bridge",
     Config |-> [k \in {"ipv4.address", "ipv4.dhcp", "ipv4.nat", "ipv6.address",
                        "raw.dnsmasq"} |->
                    CASE k = "ipv4.address" -> address
                      [] k = "ipv4.dhcp"    -> FormatBool(TRUE)
                      [] k = "ipv4.nat"     -> FormatBool(nat)
                      [] k = "ipv6.address" -> Lit("none")
                      [] k = "raw.dnsmasq"  -> Lit("port=0")]]

\* the api.NetworkPut EnsureBridge builds; nat is in scope and not used
DesiredPut(address, nat) ==
    [Description |-> "managed by LXE, default bridge",
     Config |-> [k \in {"ipv4.address", "ipv4.dhcp", "ipv4.nat", "ipv6.address",
                        "raw.dnsmasq"} |->
                    CASE k = "ipv4.address" -> address
                      [] k = "ipv4.dhcp"    -> FormatBool(TRUE)
                      [] k = "ipv4.nat"     -> FormatBool(TRUE)
                      [] k = "ipv6.address" -> Lit("none")
                      [] k = "raw.dnsmasq"  -> Lit("port=0")]]

\* a slip: the desired configuration replaces the existing one
MergeConfig_replace(existing, put) == put

\* for k, v := range put.Config { network.Config[k] = v }
MergeConfig(existing, put) ==
    [k \in DOMAIN existing \cup DOMAIN put |->
        IF k \in DOMAIN put THEN put[k] ELSE existing[k]]

\* a slip: the type is not looked at
IsBridge_any(type) == TRUE

\* network.Type != "bridge", negated
IsBridge(type) == type = "bridge"

\* a slip: createOnly is not looked at
SkipUpdate_never(createOnly) == FALSE

\* "don't update when only creation is requested"
SkipUpdate(createOnly) == createOnly

\* network.Writable(): the part of a network an update carries
Writable(n) == [Description |-> n.Description, Config |-> n.Config]

\* the version token the server hands out with a network: it identifies the
\* writable content
ETagOf(n) == [set |-> TRUE, Description |-> n.Description, Config |-> n.Config]

\* the empty token "": a write that carries it is not checked by the server
NoToken == [set |-> FALSE, Description |-> "", Config |-> EmptyConfig]

\* a slip: the update carries no token
UpdateToken_none(ETag) == NoToken

\* the token UpdateNetwork is given: the ETag of this call's GetNetwork
UpdateToken(ETag) == ETag

\* the server's precondition on a write carrying a token
Fresh(token, n) == ~token.set \/ token = ETagOf(n)

\* the api.NetworksPost of CreateNetwork, as the server stores it
Created(put) ==
    [exists |-> TRUE, Type |-> "bridge", Managed |-> TRUE,
     Description |-> put.Description, Config |-> put.Config]

\* the frames of the two bridge operations when no call is in progress
IdleEB ==
    [pc |-> "idle", cidr |-> Lit(""), nat |-> FALSE, createOnly |-> FALSE,
     lookup |-> "none", existing |-> EmptyConfig, network |-> Absent,
     ETag |-> NoToken, put |-> NoPut, err |-> "",
     creates |-> 0, updates |-> 0, post |-> Absent, sent |-> NoPut,
     token |-> NoToken, after |-> Absent]

IdleFB ==
    [pc |-> "idle", config |-> EmptyConfig, fetched |-> FALSE, raw |-> <<>>,
     bridgeIP |-> nil, err |-> ""]

NoPrev == [valid |-> FALSE, cidr |-> Lit(""), nat |-> FALSE, createOnly |-> FALSE,
           net |-> Absent]

(***************************************************************************)
(* The sandbox, the container network and the frame of a CNI call.         *)
(***************************************************************************)
\* a sandbox whose network configuration data has no "result"
NoSandbox == [mem |-> "", store |-> ""]

\* a container network nobody has attached; no network exists under it
NoNetwork == [state |-> "Unattached", exists |-> FALSE]

NoState == [err |-> "", Pid |-> 0]

IdleCNI ==
    [op |-> "none", pc |-> "idle", st |-> NoState, looked |-> FALSE, pid |-> 0,
     result |-> "", err |-> "", adds |-> 0, dels |-> 0, delPid |-> 0,
     before |-> NoSandbox, from |-> NoNetwork, props |-> "", data |-> ""]

\* the frame of the second caller's FindFreeIPBridgeLXD and of its FindFreeIP
IdleSecond ==
    [pc |-> "idle", config |-> EmptyConfig, raw |-> <<>>, bridgeIP |-> nil, err |-> "",
     subnet |-> NoNet, leases |-> nil, start |-> nil, end |-> nil, trial |-> nil,
     ip |-> nil]

(***************************************************************************)
(* Inputs of the direct calls of FindFreeIP.                               *)
(***************************************************************************)
\* longest reserved list a caller passes
MaxLeases == 1

\* how many values of rand.Uint32() are drawn from either end of its range
MaxDraw == 7

\* rand.Uint32() values, given by their four little-endian bytes: the lowest
\* and the highest values of the top byte, the other bytes all 0 or all 1
Draws ==
    {<<0, 0, 0, b>> : b \in 0..MaxDraw} \cup {<<255, 255, 255, 255 - b>> : b \in 0..MaxDraw}

SubnetTexts == {CIDRText(<<10, 0, 0, 9>>, 30), CIDRText(<<192, 168, 1, 250>>, 29)}

\* subnets as net.ParseCIDR makes them
Subnets == {ParseCIDR(t).net : t \in SubnetTexts}

\* the addresses of a subnet, 4 bytes each
AddressesOf(S) ==
    {<<S.IP[1] + h[1], S.IP[2] + h[2], S.IP[3] + h[3], S.IP[4] + h[4]>> :
        h \in (0..(255 - S.Mask[1])) \X (0..(255 - S.Mask[2]))
                 \X (0..(255 - S.Mask[3])) \X (0..(255 - S.Mask[4]))}

\* the address of S at offset k from its base
AddrAt(S, k) == [S.IP EXCEPT ![4] = (@ + k) % 256]

\* the address just after and just before a 4-byte address a
Succ(a) == [a EXCEPT ![4] = (@ + 1) % 256]

Pred(a) == [a EXCEPT ![4] = (@ + 255) % 256]

\* reserved lists: up to MaxLeases addresses of the subnet, in 16-byte form
ReservedLists(S) ==
    LET pool == {To16(a) : a \in AddressesOf(S)}
    IN  {q \in UNION {[1..n -> pool] : n \in 0..MaxLeases} :
            \A i \in 1..(Len(q) - 1) : Compare(q[i], q[i + 1]) < 0}

\* explicit start values: nil, or one of the first two usable addresses in
\* 16-byte form, or the first in 4-byte form
StartsOf(S) ==
    {nil, To16(AddrAt(S, 1)), To16(AddrAt(S, 2)), AddrAt(S, 1)}

\* explicit end values: nil, or one of the last two usable addresses in
\* 16-byte form, or the last but one in 4-byte form
EndsOf(S) ==
    LET size == Cardinality(AddressesOf(S))
    IN  {nil, To16(AddrAt(S, size - 2)), To16(AddrAt(S, size - 3)), AddrAt(S, size - 3)}

NoCall == [subnet |-> NoNet, leases |-> <<>>, start |-> nil, end |-> nil, by |-> "none"]

(***************************************************************************)
(* FindFreeIP as a state machine: the entry, one iteration of the loop     *)
(* per step, the return.                                                   *)
(***************************************************************************)
\* the function's entry up to the loop: broadcast, append, defaults
FindFreeIP_Enter(S, R, s, e, by) ==
    /\ ffpc = "idle"
    /\ call' = [subnet |-> S, leases |-> R, start |-> s, end |-> e, by |-> by]
    /\ subnet' = Enter(variant, S, R, s, e).subnet
    /\ leases' = Enter(variant, S, R, s, e).leases
    /\ start' = Enter(variant, S, R, s, e).start
    /\ end' = Enter(variant, S, R, s, e).end
    /\ trial' = nil
    /\ ip' = nil
    /\ ffpc' = "probing"

\* one iteration of the OUTER loop with the drawn value v
Probe(v) ==
    /\ ffpc = "probing"
    /\ trial' = TrialOf(subnet, v)
    /\ IF InRange(variant, trial', start, end) /\ ~Leased(trial', leases)
       THEN ip' = trial' /\ ffpc' = "done"
       ELSE UNCHANGED <<ip, ffpc>>
    /\ UNCHANGED <<second, sandbox, cnet, cni, variant, call, subnet, leases, start, end>>
    /\ UNCHANGED brvars

\* return ip: the frame is gone and the caller goes on to its next call
FindFreeIP_Return ==
    /\ ffpc = "done"
    /\ call.by = "direct"
    /\ ffpc' = "idle"
    /\ call' = NoCall
    /\ subnet' = NoNet
    /\ leases' = nil /\ start' = nil /\ end' = nil /\ trial' = nil /\ ip' = nil
    /\ UNCHANGED <<second, sandbox, cnet, cni, variant>>
    /\ UNCHANGED brvars

\* a caller invoking FindFreeIP(S, R, s, e) directly
Call ==
    /\ ffpc = "idle"
    /\ \E S \in Subnets : \E R \in ReservedLists(S) : \E s \in StartsOf(S) : \E e \in EndsOf(S) :
           FindFreeIP_Enter(S, R, s, e, "direct")
    /\ UNCHANGED <<second, sandbox, cnet, cni, variant>>
    /\ UNCHANGED brvars

Loop == \E v \in Draws : Probe(v)

InitFF ==
    /\ variant \in Variants
    /\ ffpc = "idle"
    /\ call = NoCall
    /\ subnet = NoNet
    /\ leases = nil /\ start = nil /\ end = nil /\ trial = nil /\ ip = nil
    /\ srvUp = TRUE /\ srvNet = Absent /\ srvLeases = <<>>
    /\ eb = IdleEB /\ fb = IdleFB /\ prev = NoPrev /\ others = 0
    /\ sandbox = NoSandbox /\ cnet = NoNetwork /\ cni = IdleCNI
    /\ second = IdleSecond

NextFF == Call \/ Loop \/ FindFreeIP_Return

\* the allocator called directly
SpecFF == InitFF /\ [][NextFF]_vars

\* the same with fair draws: every value of rand.Uint32() keeps being drawn
SpecFFFair == SpecFF /\ \A v \in Draws : WF_vars(Probe(v))

(***************************************************************************)
(* The bridge operations against the LXD server.  The client runs one      *)
(* operation at a time; every call to the server is a step of its own, so  *)
(* that the server can fail and other clients can write in between.        *)
(***************************************************************************)
\* writes another client of the server makes
MaxOtherWrites == 1

Cidrs ==
    {Lit(""), CIDRText(<<10, 0, 1, 8>>, 29), CIDRText(<<10, 0, 0, 0>>, 24), Lit("lxebr0")}

\* configurations the bridge may have when the client starts
ConfigA == [k \in {"ipv4.address"} |-> CIDRText(<<10, 0, 0, 1>>, 24)]

ConfigB ==
    [k \in {"ipv4.address", "ipv4.nat", "bridge.mtu"} |->
        CASE k = "ipv4.address" -> CIDRText(<<10, 0, 1, 11>>, 29)
          [] k = "ipv4.nat"     -> Lit("false")
          [] k = "bridge.mtu"   -> Lit("1500")]

ConfigC ==
    [k \in {"ipv4.address", "ipv4.dhcp.ranges"} |->
        CASE k = "ipv4.address"     -> CIDRText(<<10, 0, 1, 9>>, 29)
          [] k = "ipv4.dhcp.ranges" -> Lit("10.0.1.10-10.0.1.12")]

BridgeWith(cfg) ==
    [exists |-> TRUE, Type |-> "bridge", Managed |-> TRUE, Description |-> "", Config |-> cfg]

Physical ==
    [exists |-> TRUE, Type |-> "physical", Managed |-> FALSE, Description |-> "",
     Config |-> EmptyConfig]

InitialNetworks == {Absent, Physical, BridgeWith(ConfigA), BridgeWith(ConfigB), BridgeWith(ConfigC)}

\* lease tables of the server: the address texts of its leases
LeaseTables ==
    {<<>>, <<IPText(<<10, 0, 0, 5>>)>>, <<IPText(<<10, 0, 1, 10>>), Lit("-")>>}

\* what another client may set on the bridge
OtherWrites == {<<"bridge.mtu", Lit("9000")>>, <<"ipv4.nat", Lit("false")>>}

ClientIdle == eb.pc = "idle" /\ fb.pc = "idle" /\ ffpc = "idle"

\* EnsureBridge from its entry to the return or to the write it decides on:
\* the cidr, the desired put, GetNetwork, the type and createOnly checks, the merge
EnsureBridge_Call(cidr, nat, createOnly) ==
    /\ ClientIdle
    /\ LET parsed == cidr = Lit("") \/ ~ParseCIDR(cidr).err
           put    == DesiredPut(BridgeAddress(cidr), nat)
           frame  == [IdleEB EXCEPT !.cidr = cidr, !.nat = nat, !.createOnly = createOnly,
                                    !.after = srvNet]
           found  == [frame EXCEPT !.put = put, !.lookup = "bridge",
                                   !.existing = srvNet.Config, !.network = srvNet,
                                   !.ETag = ETagOf(srvNet)]
       IN  eb' =
             IF ~parsed
             THEN [frame EXCEPT !.pc = "done", !.err = "parse"]
             ELSE IF ~srvUp
             THEN [frame EXCEPT !.pc = "done", !.put = put, !.lookup = "failed",
                                !.err = "unavailable"]
             ELSE IF ~srvNet.exists
             THEN [frame EXCEPT !.pc = "create", !.put = put, !.lookup = "absent"]
             ELSE IF ~IsBridge(srvNet.Type)
             THEN [frame EXCEPT !.pc = "done", !.put = put, !.lookup = "other",
                                !.err = "type"]
             ELSE IF SkipUpdate(createOnly)
             THEN [found EXCEPT !.pc = "done"]
             ELSE [found EXCEPT !.pc = "update",
                                !.network.Config = MergeConfig(srvNet.Config, put.Config)]
    /\ UNCHANGED <<second, sandbox, cnet, cni, variant, srvUp, srvNet, srvLeases, fb, prev, others>>
    /\ UNCHANGED ffvars

\* l.server.CreateNetwork(...)
EnsureBridge_Create ==
    /\ eb.pc = "create"
    /\ LET post == Created(eb.put)
           ok   == srvUp /\ ~srvNet.exists
       IN  /\ srvNet' = IF ok THEN post ELSE srvNet
           /\ eb' = [eb EXCEPT !.pc = "done", !.creates = @ + 1, !.post = post,
                               !.after = srvNet',
                               !.err = IF ok THEN ""
                                       ELSE IF srvUp THEN "exists" ELSE "unavailable"]
    /\ UNCHANGED <<second, sandbox, cnet, cni, variant, srvUp, srvLeases, fb, prev, others>>
    /\ UNCHANGED ffvars

\* l.server.UpdateNetwork(name, network.Writable(), ETag)
EnsureBridge_Update ==
    /\ eb.pc = "update"
    /\ LET w  == Writable(eb.network)
           ok == srvUp /\ srvNet.exists /\ Fresh(UpdateToken(eb.ETag), srvNet)
       IN  /\ srvNet' = IF ok
                        THEN [srvNet EXCEPT !.Description = w.Description,
                                            !.Config = w.Config]
                        ELSE srvNet
           /\ eb' = [eb EXCEPT !.pc = "done", !.updates = @ + 1, !.sent = w,
                               !.token = UpdateToken(eb.ETag),
                               !.after = srvNet',
                               !.err = IF ok THEN ""
                                       ELSE IF srvUp THEN "conflict" ELSE "unavailable"]
    /\ UNCHANGED <<second, sandbox, cnet, cni, variant, srvUp, srvLeases, fb, prev, others>>
    /\ UNCHANGED ffvars

\* EnsureBridge has returned; the caller remembers a call that returned nil
\* on a bridge it found, while nobody has written since
EnsureBridge_Return ==
    /\ eb.pc = "done"
    /\ prev' = IF eb.err = "" /\ eb.lookup = "bridge" /\ eb.after = srvNet
               THEN [valid |-> TRUE, cidr |-> eb.cidr, nat |-> eb.nat,
                     createOnly |-> eb.createOnly, net |-> eb.after]
               ELSE NoPrev
    /\ eb' = IdleEB
    /\ UNCHANGED <<second, sandbox, cnet, cni, variant, srvUp, srvNet, srvLeases, fb, others>>
    /\ UNCHANGED ffvars

EnsureBridge ==
    \E cidr \in Cidrs : \E nat, createOnly \in BOOLEAN : EnsureBridge_Call(cidr, nat, createOnly)

\* a slip: the bridge's own address is not appended
ReservedOf_leasesOnly(raw, bridgeIP) == [i \in 1..Len(raw) |-> ParseIP(raw[i].Address)]

\* the reserved list FindFreeIPBridgeLXD passes: every lease parsed, then
\* the bridge's own address
ReservedOf(raw, bridgeIP) == [i \in 1..Len(raw) |-> ParseIP(raw[i].Address)] \o <<bridgeIP>>

\* a slip: the explicit ranges are not looked at
ExplicitRanges_ignored(config) == FALSE

\* network.Config["ipv4.dhcp.ranges"] != ""
ExplicitRanges(config) == Get(config, "ipv4.dhcp.ranges") # Lit("")

\* FindFreeIPBridgeLXD: GetNetwork and the check of ipv4.dhcp.ranges
FindFreeIPBridgeLXD_GetNetwork ==
    /\ ClientIdle
    /\ fb' = IF ~srvUp THEN [IdleFB EXCEPT !.pc = "done", !.err = "unavailable"]
             ELSE IF ~srvNet.exists THEN [IdleFB EXCEPT !.pc = "done", !.err = "notfound"]
             ELSE IF ExplicitRanges(srvNet.Config)
             THEN [IdleFB EXCEPT !.pc = "done", !.err = "unsupported"]
             ELSE [IdleFB EXCEPT !.pc = "leases", !.config = srvNet.Config]
    /\ UNCHANGED <<second, sandbox, cnet, cni, variant, srvUp, srvNet, srvLeases, eb, prev, others>>
    /\ UNCHANGED ffvars

\* FindFreeIPBridgeLXD: GetNetworkLeases, the parsing, the call of FindFreeIP
FindFreeIPBridgeLXD_GetLeases ==
    /\ fb.pc = "leases"
    /\ LET raw      == [i \in 1..Len(srvLeases) |-> [Address |-> srvLeases[i]]]
           bridge   == ParseCIDR(Get(fb.config, "ipv4.address"))
       IN  IF ~srvUp
           THEN /\ fb' = [fb EXCEPT !.pc = "done", !.fetched = TRUE, !.err = "unavailable"]
                /\ UNCHANGED ffvars
           ELSE IF bridge.err
           THEN /\ fb' = [fb EXCEPT !.pc = "done", !.fetched = TRUE, !.raw = raw,
                                    !.err = "parse"]
                /\ UNCHANGED ffvars
           ELSE /\ fb' = [fb EXCEPT !.pc = "alloc", !.fetched = TRUE, !.raw = raw,
                                    !.bridgeIP = bridge.ip]
                /\ FindFreeIP_Enter(bridge.net, ReservedOf(raw, bridge.ip), nil, nil, "bridge")
    /\ UNCHANGED <<second, sandbox, cnet, cni, variant, srvUp, srvNet, srvLeases, eb, prev, others>>

\* a slip: the returned address is reserved on the way out
LeasesAfter_reserved(table, a) ==
    IF a = nil THEN table ELSE Append(table, IPText(To4(a)))

\* the server's lease table after FindFreeIPBridgeLXD returns a: the function
\* makes no call that reserves a
LeasesAfter(table, a) == table

\* FindFreeIPBridgeLXD has returned, with an error or with FindFreeIP's address
FindFreeIPBridgeLXD_Return ==
    /\ fb.pc = "done" \/ (fb.pc = "alloc" /\ ffpc = "done")
    /\ fb' = IdleFB
    /\ srvLeases' = LeasesAfter(srvLeases, ip)
    /\ ffpc' = "idle" /\ call' = NoCall /\ subnet' = NoNet
    /\ leases' = nil /\ start' = nil /\ end' = nil /\ trial' = nil /\ ip' = nil
    /\ UNCHANGED <<second, sandbox, cnet, cni, variant, srvUp, srvNet, eb, prev, others>>

\* the server stops or starts answering
ServerToggle ==
    /\ srvUp' = ~srvUp
    /\ UNCHANGED <<second, sandbox, cnet, cni, variant, srvNet, srvLeases, eb, fb, prev, others>>
    /\ UNCHANGED ffvars

\* another client creates the bridge or sets one key of it
OtherWrite ==
    /\ srvUp
    /\ others < MaxOtherWrites
    /\ others' = others + 1
    /\ \/ /\ ~srvNet.exists
          /\ srvNet' = BridgeWith(ConfigB)
       \/ /\ srvNet.exists
          /\ \E w \in OtherWrites :
                srvNet' = [srvNet EXCEPT !.Config =
                              [k \in DOMAIN @ \cup {w[1]} |-> IF k = w[1] THEN w[2] ELSE @[k]]]
    /\ prev' = NoPrev
    /\ UNCHANGED <<second, sandbox, cnet, cni, variant, srvUp, srvLeases, eb, fb>>
    /\ UNCHANGED ffvars

Init ==
    /\ variant \in Variants
    /\ ffpc = "idle"
    /\ call = NoCall
    /\ subnet = NoNet
    /\ leases = nil /\ start = nil /\ end = nil /\ trial = nil /\ ip = nil
    /\ srvUp = TRUE
    /\ srvNet \in InitialNetworks
    /\ srvLeases \in LeaseTables
    /\ eb = IdleEB /\ fb = IdleFB /\ prev = NoPrev /\ others = 0
    /\ sandbox = NoSandbox /\ cnet = NoNetwork /\ cni = IdleCNI
    /\ second = IdleSecond

Next ==
    \/ EnsureBridge
    \/ EnsureBridge_Create
    \/ EnsureBridge_Update
    \/ EnsureBridge_Return
    \/ FindFreeIPBridgeLXD_GetNetwork
    \/ FindFreeIPBridgeLXD_GetLeases
    \/ Loop
    \/ FindFreeIPBridgeLXD_Return
    \/ ServerToggle
    \/ OtherWrite

\* the bridge operations of one client against the server
Spec == Init /\ [][Next]_vars

(***************************************************************************)
(* The address EnsureBridge derives from its cidr, over many cidrs.        *)
(***************************************************************************)
AddrPrefixes == {8, 16, 24, 25, 29, 30, 31, 32}

AddrCidrs ==
    {CIDRText(<<a[1], a[2], a[3], d>>, n) :
        a \in {<<10, 0, 0>>, <<10, 0, 255>>, <<192, 168, 1>>},
        d \in {0, 1, 5, 128, 254, 255},
        n \in AddrPrefixes}

\* EnsureBridge up to the desired put: the cidr, the address, the put
EnsureBridge_Address ==
    /\ eb.pc = "idle"
    /\ eb.put = NoPut
    /\ ~ParseCIDR(eb.cidr).err
    /\ eb' = [eb EXCEPT !.pc = "addressed",
                        !.put = DesiredPut(BridgeAddress(eb.cidr), eb.nat)]
    /\ UNCHANGED <<variant, srvUp, srvNet, srvLeases, fb, prev, others>>
    /\ UNCHANGED <<ffvars, cnivars, second>>

InitAddr ==
    /\ variant = "lxf"
    /\ ffpc = "idle"
    /\ call = NoCall
    /\ subnet = NoNet
    /\ leases = nil /\ start = nil /\ end = nil /\ trial = nil /\ ip = nil
    /\ srvUp = TRUE /\ srvNet = Absent /\ srvLeases = <<>>
    /\ \E cidr \in AddrCidrs : \E nat \in BOOLEAN :
          eb = [IdleEB EXCEPT !.cidr = cidr, !.nat = nat]
    /\ fb = IdleFB /\ prev = NoPrev /\ others = 0
    /\ sandbox = NoSandbox /\ cnet = NoNetwork /\ cni = IdleCNI
    /\ second = IdleSecond

NextAddr == EnsureBridge_Address

\* EnsureBridge's address computation on each cidr
SpecAddr == InitAddr /\ [][NextAddr]_vars

(***************************************************************************)
(* Two callers of FindFreeIPBridgeLXD on the same bridge.  The second runs *)
(* the same code on a frame of its own.                                    *)
(***************************************************************************)
Second_GetNetwork ==
    /\ second.pc = "idle"
    /\ second' =
          IF ~srvUp THEN [IdleSecond EXCEPT !.pc = "done", !.err = "unavailable"]
          ELSE IF ~srvNet.exists THEN [IdleSecond EXCEPT !.pc = "done", !.err = "notfound"]
          ELSE IF ExplicitRanges(srvNet.Config)
          THEN [IdleSecond EXCEPT !.pc = "done", !.err = "unsupported"]
          ELSE [IdleSecond EXCEPT !.pc = "leases", !.config = srvNet.Config]
    /\ UNCHANGED <<sandbox, cnet, cni, variant>>
    /\ UNCHANGED <<ffvars, brvars>>

Second_GetLeases ==
    /\ second.pc = "leases"
    /\ LET raw    == [i \in 1..Len(srvLeases) |-> [Address |-> srvLeases[i]]]
           bridge == ParseCIDR(Get(second.config, "ipv4.address"))
           frame  == Enter(variant, bridge.net, ReservedOf(raw, bridge.ip), nil, nil)
       IN  second' =
             IF ~srvUp
             THEN [second EXCEPT !.pc = "done", !.err = "unavailable"]
             ELSE IF bridge.err
             THEN [second EXCEPT !.pc = "done", !.raw = raw, !.err = "parse"]
             ELSE [second EXCEPT !.pc = "probing", !.raw = raw, !.bridgeIP = bridge.ip,
                                 !.subnet = frame.subnet, !.leases = frame.leases,
                                 !.start = frame.start, !.end = frame.end]
    /\ UNCHANGED <<sandbox, cnet, cni, variant>>
    /\ UNCHANGED <<ffvars, brvars>>

Second_Probe(v) ==
    /\ second.pc = "probing"
    /\ LET t == TrialOf(second.subnet, v)
       IN  second' =
             IF InRange(variant, t, second.start, second.end) /\ ~Leased(t, second.leases)
             THEN [second EXCEPT !.trial = t, !.ip = t, !.pc = "returned"]
             ELSE [second EXCEPT !.trial = t]
    /\ UNCHANGED <<sandbox, cnet, cni, variant>>
    /\ UNCHANGED <<ffvars, brvars>>

Second_Loop == \E v \in Draws : Second_Probe(v)

Second_Return ==
    /\ second.pc \in {"done", "returned"}
    /\ second' = IdleSecond
    /\ srvLeases' = LeasesAfter(srvLeases, second.ip)
    /\ UNCHANGED <<sandbox, cnet, cni, variant>>
    /\ UNCHANGED <<ffvars, srvUp, srvNet, eb, fb, prev, others>>

\* the container of the first caller starts with the address it was given:
\* the server's DHCP commits the lease
LeaseCommitted ==
    /\ fb.pc = "alloc" /\ ffpc = "done"
    /\ others < MaxOtherWrites
    /\ others' = others + 1
    /\ srvLeases' = Append(srvLeases, IPText(To4(ip)))
    /\ fb' = IdleFB
    /\ ffpc' = "idle" /\ call' = NoCall /\ subnet' = NoNet
    /\ leases' = nil /\ start' = nil /\ end' = nil /\ trial' = nil /\ ip' = nil
    /\ UNCHANGED <<second, sandbox, cnet, cni, variant, srvUp, srvNet, eb, prev>>

InitTwo ==
    /\ variant \in Variants
    /\ ffpc = "idle"
    /\ call = NoCall
    /\ subnet = NoNet
    /\ leases = nil /\ start = nil /\ end = nil /\ trial = nil /\ ip = nil
    /\ srvUp = TRUE
    /\ srvNet = BridgeWith(ConfigB)
    /\ srvLeases \in LeaseTables
    /\ eb = IdleEB /\ fb = IdleFB /\ prev = NoPrev /\ others = 0
    /\ sandbox = NoSandbox /\ cnet = NoNetwork /\ cni = IdleCNI
    /\ second = IdleSecond

NextTwo ==
    \/ FindFreeIPBridgeLXD_GetNetwork
    \/ FindFreeIPBridgeLXD_GetLeases
    \/ Loop
    \/ FindFreeIPBridgeLXD_Return
    \/ Second_GetNetwork
    \/ Second_GetLeases
    \/ Second_Loop
    \/ Second_Return
    \/ LeaseCommitted

\* two callers allocating on one bridge
SpecTwo == InitTwo /\ [][NextTwo]_vars

(***************************************************************************)
(* The container network (PodNetwork / ContainerNetwork of package         *)
(* network), as the specification describes it: Unattached -> Attached ->  *)
(* TornDown.  An operation is the set of the outcomes it can have.         *)
(***************************************************************************)
\* result payloads a CNI add hands back
Payloads == {"P1", "P2"}

Attached == [state |-> "Attached", exists |-> TRUE]

TornDown == [state |-> "TornDown", exists |-> FALSE]

\* WhenStarted: needs a non-zero process ID; the CNI add can fail; a second
\* attach is rejected or repeated, as the plugin decides
WhenStarted(cn, pid) ==
    IF pid = 0
    THEN {[err |-> "zero pid", result |-> "", cnet |-> cn, adds |-> 0]}
    ELSE IF cn.state = "TornDown"
    THEN {[err |-> "torn down", result |-> "", cnet |-> cn, adds |-> 0]}
    ELSE IF cn.state = "Attached"
    THEN {[err |-> "exists", result |-> "", cnet |-> cn, adds |-> 1]}
         \cup {[err |-> "", result |-> p, cnet |-> Attached, adds |-> 1] : p \in Payloads}
    ELSE {[err |-> "tool", result |-> "", cnet |-> cn, adds |-> 1]}
         \cup {[err |-> "", result |-> p, cnet |-> Attached, adds |-> 1] : p \in Payloads}

\* a slip: a network that is not there is an error of the teardown
WhenDeleted_strict(cn, pid) ==
    IF cn.exists THEN [err |-> "", cnet |-> TornDown]
    ELSE [err |-> "not found", cnet |-> cn]

\* WhenDeleted: best-effort teardown, not-found is success, any process ID
WhenDeleted(cn, pid) == [err |-> "", cnet |-> TornDown]

\* what Status hands back for a stored result payload
DataOf(props) == <<props>>

NoData == <<>>

\* a slip: Status answers from the supplied payload alone
Status_unchecked(cn, props) ==
    IF props = ""
    THEN [err |-> "not found", data |-> NoData]
    ELSE [err |-> "", data |-> DataOf(props)]

\* Status: a CNI check; not-found when no attach is recorded
Status(cn, props) ==
    IF cn.state # "Attached" \/ ~cn.exists \/ props = ""
    THEN [err |-> "not found", data |-> NoData]
    ELSE [err |-> "", data |-> DataOf(props)]

\* network.AttachCNIInterface(namespace, name, id, pid): the pod network is
\* built (which fails on a malformed CNI configuration), then WhenStarted
AttachCNIInterface(cn, pid) ==
    {[err |-> "conf", result |-> "", cnet |-> cn, adds |-> 0]} \cup WhenStarted(cn, pid)

\* network.DetachCNIInterface(namespace, name, id, pid)
DetachCNIInterface(cn, pid) ==
    {[err |-> "conf", cnet |-> cn, dels |-> 0],
     [err |-> WhenDeleted(cn, pid).err, cnet |-> WhenDeleted(cn, pid).cnet, dels |-> 1]}

(***************************************************************************)
(* AttachCNI and DetachCNI, one step per call they make.                   *)
(***************************************************************************)
ErrorLXDNotFound == "not found"

\* what c.State() can answer
StateResults ==
    {[err |-> "", Pid |-> 0], [err |-> "", Pid |-> 7],
     [err |-> ErrorLXDNotFound, Pid |-> 0], [err |-> "unavailable", Pid |-> 0]}

\* a slip: the error of the attach is not looked at
Failed_never(err) == FALSE

\* if err != nil
Failed(err) == err # ""

\* a slip: every error of the state lookup is fatal
StateFatal_any(st) == st.err # ""

\* DetachCNI: err != nil && err.Error() != ErrorLXDNotFound
StateFatal(st) == st.err # "" /\ st.err # ErrorLXDNotFound

\* DetachCNI: var pid int64; pid = st.Pid only when the lookup succeeded
DetachPid(st) == IF st.err = "" THEN st.Pid ELSE 0

\* s, err := c.Sandbox()
AttachCNI_Sandbox ==
    /\ cni.pc = "idle"
    /\ \E ok \in BOOLEAN :
          cni' = IF ok
                 THEN [IdleCNI EXCEPT !.op = "attach", !.pc = "state",
                                      !.before = sandbox, !.from = cnet]
                 ELSE [IdleCNI EXCEPT !.op = "attach", !.pc = "done", !.err = "sandbox",
                                      !.before = sandbox, !.from = cnet]
    /\ UNCHANGED <<sandbox, cnet, variant>>
    /\ UNCHANGED <<ffvars, brvars, second>>

\* st, err := c.State()
AttachCNI_State ==
    /\ cni.op = "attach" /\ cni.pc = "state"
    /\ \E st \in StateResults :
          cni' = IF Failed(st.err)
                 THEN [cni EXCEPT !.pc = "done", !.st = st, !.looked = TRUE, !.err = st.err]
                 ELSE [cni EXCEPT !.pc = "attach", !.st = st, !.looked = TRUE,
                                  !.pid = st.Pid]
    /\ UNCHANGED <<sandbox, cnet, variant>>
    /\ UNCHANGED <<ffvars, brvars, second>>

\* result, err := network.AttachCNIInterface(..., st.Pid)
AttachCNI_Attach ==
    /\ cni.op = "attach" /\ cni.pc = "attach"
    /\ \E o \in AttachCNIInterface(cnet, cni.pid) :
          /\ cnet' = o.cnet
          /\ cni' = IF Failed(o.err)
                    THEN [cni EXCEPT !.pc = "done", !.err = o.err, !.adds = @ + o.adds]
                    ELSE [cni EXCEPT !.pc = "apply", !.result = o.result,
                                     !.adds = @ + o.adds]
    /\ UNCHANGED <<sandbox, variant>>
    /\ UNCHANGED <<ffvars, brvars, second>>

\* s.NetworkConfig.ModeData["result"] = string(result); err = s.apply()
AttachCNI_Apply ==
    /\ cni.op = "attach" /\ cni.pc = "apply"
    /\ \E ok \in BOOLEAN :
          /\ sandbox' = [mem |-> cni.result,
                         store |-> IF ok THEN cni.result ELSE sandbox.store]
          /\ cni' = [cni EXCEPT !.pc = "done", !.err = IF ok THEN "" ELSE "apply"]
    /\ UNCHANGED <<cnet, variant>>
    /\ UNCHANGED <<ffvars, brvars, second>>

\* s, err := c.Sandbox()
DetachCNI_Sandbox ==
    /\ cni.pc = "idle"
    /\ \E ok \in BOOLEAN :
          cni' = IF ok
                 THEN [IdleCNI EXCEPT !.op = "detach", !.pc = "state",
                                      !.before = sandbox, !.from = cnet]
                 ELSE [IdleCNI EXCEPT !.op = "detach", !.pc = "done", !.err = "sandbox",
                                      !.before = sandbox, !.from = cnet]
    /\ UNCHANGED <<sandbox, cnet, variant>>
    /\ UNCHANGED <<ffvars, brvars, second>>

\* st, err := c.State(), and the choice of pid
DetachCNI_State ==
    /\ cni.op = "detach" /\ cni.pc = "state"
    /\ \E st \in StateResults :
          cni' = IF StateFatal(st)
                 THEN [cni EXCEPT !.pc = "done", !.st = st, !.looked = TRUE, !.err = st.err]
                 ELSE [cni EXCEPT !.pc = "detach", !.st = st, !.looked = TRUE,
                                  !.pid = DetachPid(st)]
    /\ UNCHANGED <<sandbox, cnet, variant>>
    /\ UNCHANGED <<ffvars, brvars, second>>

\* err = network.DetachCNIInterface(..., pid)
DetachCNI_Detach ==
    /\ cni.op = "detach" /\ cni.pc = "detach"
    /\ \E o \in DetachCNIInterface(cnet, cni.pid) :
          /\ cnet' = o.cnet
          /\ cni' = [cni EXCEPT !.pc = "done", !.err = o.err, !.dels = @ + 1,
                                !.delPid = cni.pid]
    /\ UNCHANGED <<sandbox, variant>>
    /\ UNCHANGED <<ffvars, brvars, second>>

\* the operation has returned
CNI_Return ==
    /\ cni.pc = "done"
    /\ cni' = IdleCNI
    /\ UNCHANGED <<sandbox, cnet, variant>>
    /\ UNCHANGED <<ffvars, brvars, second>>

\* containerNetwork.WhenStarted(ctx, &PropertiesRunning{Pid: pid})
ContainerNetwork_WhenStarted ==
    /\ cni.pc = "idle"
    /\ \E pid \in {0, 7} : \E o \in WhenStarted(cnet, pid) :
          /\ cnet' = o.cnet
          /\ cni' = [IdleCNI EXCEPT !.op = "started", !.pc = "done", !.pid = pid,
                                    !.looked = TRUE, !.err = o.err, !.result = o.result,
                                    !.adds = o.adds, !.before = sandbox, !.from = cnet]
    /\ UNCHANGED <<sandbox, variant>>
    /\ UNCHANGED <<ffvars, brvars, second>>

\* containerNetwork.WhenDeleted(ctx, props): props nil, or with a process ID
ContainerNetwork_WhenDeleted ==
    /\ cni.pc = "idle"
    /\ \E pid \in {0, 7} :
          /\ cnet' = WhenDeleted(cnet, pid).cnet
          /\ cni' = [IdleCNI EXCEPT !.op = "deleted", !.pc = "done", !.pid = pid,
                                    !.err = WhenDeleted(cnet, pid).err, !.dels = 1,
                                    !.delPid = pid, !.before = sandbox, !.from = cnet]
    /\ UNCHANGED <<sandbox, variant>>
    /\ UNCHANGED <<ffvars, brvars, second>>

\* podNetwork.Status(ctx, props): props carry the stored "result", or nothing
PodNetwork_Status ==
    /\ cni.pc = "idle"
    /\ \E props \in {"", sandbox.store} \cup Payloads :
          cni' = [IdleCNI EXCEPT !.op = "status", !.pc = "done", !.props = props,
                                 !.err = Status(cnet, props).err,
                                 !.data = Status(cnet, props).data,
                                 !.before = sandbox, !.from = cnet]
    /\ UNCHANGED <<sandbox, cnet, variant>>
    /\ UNCHANGED <<ffvars, brvars, second>>

\* the container's process exits or the network is removed under the handle
NetworkRemoved ==
    /\ cnet.exists
    /\ cnet' = [cnet EXCEPT !.exists = FALSE]
    /\ UNCHANGED <<sandbox, cni, variant>>
    /\ UNCHANGED <<ffvars, brvars, second>>

InitCNI ==
    /\ variant = "lxf"
    /\ ffpc = "idle"
    /\ call = NoCall
    /\ subnet = NoNet
    /\ leases = nil /\ start = nil /\ end = nil /\ trial = nil /\ ip = nil
    /\ srvUp = TRUE /\ srvNet = Absent /\ srvLeases = <<>>
    /\ eb = IdleEB /\ fb = IdleFB /\ prev = NoPrev /\ others = 0
    /\ sandbox = NoSandbox /\ cnet = NoNetwork /\ cni = IdleCNI
    /\ second = IdleSecond

NextCNI ==
    \/ AttachCNI_Sandbox
    \/ AttachCNI_State
    \/ AttachCNI_Attach
    \/ AttachCNI_Apply
    \/ DetachCNI_Sandbox
    \/ DetachCNI_State
    \/ DetachCNI_Detach
    \/ CNI_Return
    \/ ContainerNetwork_WhenStarted
    \/ ContainerNetwork_WhenDeleted
    \/ PodNetwork_Status
    \/ NetworkRemoved

\* the attach orchestrator and the container network of one container
SpecCNI == InitCNI /\ [][NextCNI]_vars

(***************************************************************************)
(* What the properties speak of: addresses as addresses, whatever the      *)
(* length of the slice that holds them.                                    *)
(***************************************************************************)
NetworkAddr(S) == MaskIP(S.IP, S.Mask)

BroadcastAddr(S) == [i \in 1..4 |-> OrNot[NetworkAddr(S)[i], S.Mask[i]]]

InSubnet(a, S) == To4(a) # nil /\ MaskIP(To4(a), S.Mask) = NetworkAddr(S)

SameAddr(a, b) == To4(a) # nil /\ To4(a) = To4(b)

\* a <= b as 32-bit addresses
AddrLE(a, b) == Compare(To4(a), To4(b)) <= 0

InList(a, R) == \E i \in 1..Len(R) : SameAddr(a, R[i])

\* the usable range of a subnet: all its addresses but network and broadcast
UsableOf(S) == AddressesOf(S) \ {NetworkAddr(S), BroadcastAddr(S)}

\* the allocation range of the call in progress, defaults filled in
RangeStart == IF call.start = nil THEN Succ(NetworkAddr(call.subnet)) ELSE call.start

RangeEnd == IF call.end = nil THEN Pred(BroadcastAddr(call.subnet)) ELSE call.end

\* a is an address the call in progress may hand out
Allocatable(a) ==
    /\ a \in UsableOf(call.subnet)
    /\ ~InList(a, call.leases)
    /\ AddrLE(RangeStart, a) /\ AddrLE(a, RangeEnd)

(***************************************************************************)
(* C1: for every subnet S and reserved list R that leaves some usable      *)
(* address of S free, FindFreeIP(S, R, nil, nil) returns, and the address  *)
(* returned is in S, not in R, not the network and not the broadcast       *)
(* address.  Stated under fair draws.                                      *)
(***************************************************************************)
C1_Entered ==
    /\ ffpc = "probing" /\ call.by = "direct"
    /\ call.start = nil /\ call.end = nil
    /\ \E a \in UsableOf(call.subnet) : ~InList(a, call.leases)

C1_Returned ==
    /\ ffpc = "done"
    /\ InSubnet(ip, call.subnet)
    /\ ~InList(ip, call.leases)
    /\ ~SameAddr(ip, NetworkAddr(call.subnet))
    /\ ~SameAddr(ip, BroadcastAddr(call.subnet))

C1_ReturnsFreeAddress == C1_Entered ~> C1_Returned

(***************************************************************************)
(* C2: a call with explicit start and end returns only addresses a with    *)
(* start <= a <= end.                                                      *)
(***************************************************************************)
C2_WithinExplicitBounds ==
    (ffpc = "done" /\ call.start # nil /\ call.end # nil)
        => (AddrLE(call.start, ip) /\ AddrLE(ip, call.end))

(***************************************************************************)
(* C3: the range is inclusive at both ends: an iteration accepts its       *)
(* candidate exactly when the candidate is unreserved, usable and          *)
(* start <= candidate <= end, the defaults being network + 1 and           *)
(* broadcast - 1.                                                          *)
(***************************************************************************)
C3_InclusiveRange ==
    [][(ffpc = "probing" /\ trial' # trial)
          => ((ffpc' = "done" /\ ip' = trial') <=> Allocatable(To4(trial')))]_vars

(***************************************************************************)
(* C4: when some address of the subnet is inside the range, unreserved and *)
(* neither network nor broadcast, the loop terminates under fair draws.    *)
(***************************************************************************)
C4_Probing == ffpc = "probing" /\ \E a \in AddressesOf(call.subnet) : Allocatable(a)

C4_Terminates == C4_Probing ~> (ffpc = "done")

(***************************************************************************)
(* What the bridge properties speak of.                                    *)
(***************************************************************************)
\* the call in progress is FindFreeIPBridgeLXD and FindFreeIP has handed it ip
BridgeAllocated == fb.pc = "alloc" /\ ffpc = "done"

\* the bridge's own address and subnet, read off the text of ipv4.address
BridgeText == Get(fb.config, "ipv4.address")

BridgeSubnet == [IP |-> BridgeText.addr, Mask |-> CIDRMask(BridgeText.bits)]

\* the name resolves: the server answers and holds a resource under it
Resolves == srvUp /\ srvNet.exists

\* this step is a call of EnsureBridge
EnsureBridgeCalled == ClientIdle /\ eb'.pc # "idle"

\* the call issues no write and the resource stays as it is
NoWrite == eb'.pc = "done" /\ eb'.creates = 0 /\ eb'.updates = 0 /\ srvNet' = srvNet

CidrParses(cidr) == cidr = Lit("") \/ ~ParseCIDR(cidr).err

(***************************************************************************)
(* C5: for a bridge without ipv4.dhcp.ranges, an address                   *)
(* FindFreeIPBridgeLXD returns is not the bridge's own address, not the    *)
(* address of any lease, and neither the network nor the broadcast address *)
(* of the bridge's subnet.                                                 *)
(***************************************************************************)
C5_BridgeAddressFree ==
    BridgeAllocated =>
        /\ To4(ip) # BridgeText.addr
        /\ \A i \in 1..Len(fb.raw) : To4(ip) # fb.raw[i].Address.addr
        /\ To4(ip) # NetworkAddr(BridgeSubnet)
        /\ To4(ip) # BroadcastAddr(BridgeSubnet)

\* the end-to-end case: 10.0.0.0/24, bridge 10.0.0.1, lease 10.0.0.5
C5_Witness ==
    /\ BridgeAllocated
    /\ BridgeText = CIDRText(<<10, 0, 0, 1>>, 24)
    /\ fb.raw = <<[Address |-> IPText(<<10, 0, 0, 5>>)]>>
    /\ InSubnet(ip, BridgeSubnet)

(***************************************************************************)
(* C6: EnsureBridge is idempotent on a bridge that exists: when a call     *)
(* that returned nil is followed, with no write by anyone else in between, *)
(* by a call with the same arguments that returns nil, the second call     *)
(* leaves the resource as the first left it.                               *)
(***************************************************************************)
C6_SecondCall ==
    /\ eb.pc = "done" /\ eb.err = ""
    /\ prev.valid
    /\ eb.cidr = prev.cidr /\ eb.nat = prev.nat /\ eb.createOnly = prev.createOnly

C6_Idempotent == C6_SecondCall => eb.after = prev.net

C6_Witness ==
    /\ C6_SecondCall
    /\ eb.updates = 1
    /\ eb.cidr = CIDRText(<<10, 0, 0, 0>>, 24)
    /\ "bridge.mtu" \in DOMAIN eb.after.Config

(***************************************************************************)
(* C7, as claimed: EnsureBridge with createOnly on a name that resolves to *)
(* a bridge returns nil, issues no CreateNetwork and no UpdateNetwork and  *)
(* leaves the bridge unchanged, on every such call.                        *)
(***************************************************************************)
C7_OnBridge == EnsureBridgeCalled /\ eb'.createOnly /\ Resolves /\ srvNet.Type = "bridge"

C7_CreateOnlySucceeds == [][C7_OnBridge => (NoWrite /\ eb'.err = "")]_vars

(***************************************************************************)
(* C7, amended: such a call issues no write and leaves the bridge          *)
(* unchanged; it returns nil when cidr is empty or parses, and the error   *)
(* of net.ParseCIDR otherwise.                                             *)
(***************************************************************************)
C7_CreateOnlyNoWrite ==
    [][C7_OnBridge =>
          (NoWrite /\ eb'.err = IF CidrParses(eb'.cidr) THEN "" ELSE "parse")]_vars

\* a createOnly call returned nil on a bridge an update would have changed
C7_Witness ==
    /\ eb.pc = "done" /\ eb.createOnly /\ eb.lookup = "bridge" /\ eb.err = ""
    /\ eb.after.Config # [k \in DOMAIN eb.after.Config \cup DOMAIN eb.put.Config |->
                             IF k \in DOMAIN eb.put.Config THEN eb.put.Config[k]
                             ELSE eb.after.Config[k]]

(***************************************************************************)
(* C8, as claimed: EnsureBridge on a name that resolves to a resource that *)
(* is no bridge returns the type-mismatch error and issues no write,       *)
(* whatever cidr, nat and createOnly are.                                  *)
(***************************************************************************)
C8_OnOther == EnsureBridgeCalled /\ Resolves /\ srvNet.Type # "bridge"

C8_TypeMismatch == [][C8_OnOther => (NoWrite /\ eb'.err = "type")]_vars

(***************************************************************************)
(* C8, amended: such a call issues no write; it returns the type-mismatch  *)
(* error when cidr is empty or parses, and the error of net.ParseCIDR      *)
(* otherwise.                                                              *)
(***************************************************************************)
C8_TypeMismatchNoWrite ==
    [][C8_OnOther =>
          (NoWrite /\ eb'.err = IF CidrParses(eb'.cidr) THEN "type" ELSE "parse")]_vars

C8_Witness == eb.pc = "done" /\ eb.lookup = "other" /\ eb.err = "type" /\ ~eb.createOnly

(***************************************************************************)
(* C9: when GetNetwork reports not-found, EnsureBridge issues exactly one  *)
(* CreateNetwork and no UpdateNetwork, for a managed bridge with           *)
(* ipv4.dhcp=true, ipv4.nat=true, ipv6.address=none, raw.dnsmasq=port=0    *)
(* and ipv4.address=auto for an empty cidr (first address of the cidr      *)
(* otherwise), whatever nat and createOnly are; a successful call leaves   *)
(* exactly that resource.                                                  *)
(***************************************************************************)
C9_CreatesDesired ==
    (eb.pc = "done" /\ eb.lookup = "absent") =>
        /\ eb.creates = 1 /\ eb.updates = 0
        /\ eb.post.exists /\ eb.post.Type = "bridge" /\ eb.post.Managed
        /\ DOMAIN eb.post.Config =
              {"ipv4.address", "ipv4.dhcp", "ipv4.nat", "ipv6.address", "raw.dnsmasq"}
        /\ eb.post.Config["ipv4.dhcp"] = Lit("true")
        /\ eb.post.Config["ipv4.nat"] = Lit("true")
        /\ eb.post.Config["ipv6.address"] = Lit("none")
        /\ eb.post.Config["raw.dnsmasq"] = Lit("port=0")
        /\ eb.post.Config["ipv4.address"] =
              IF eb.cidr = Lit("") THEN Lit("auto")
              ELSE CIDRText(Succ(MaskIP(eb.cidr.addr, CIDRMask(eb.cidr.bits))), eb.cidr.bits)
        /\ (eb.err = "" => eb.after = eb.post)

C9_Witness ==
    /\ eb.pc = "done" /\ eb.lookup = "absent" /\ eb.err = ""
    /\ eb.cidr = Lit("") /\ ~eb.nat /\ ~eb.createOnly

(***************************************************************************)
(* C10: the configuration an update submits is the existing one merged     *)
(* with the desired keys: every desired key has its desired value, every   *)
(* other existing key keeps its value, no existing key is missing.         *)
(***************************************************************************)
C10_MergePreserves ==
    eb.updates = 1 =>
        /\ DOMAIN eb.sent.Config = DOMAIN eb.existing \cup DOMAIN eb.put.Config
        /\ \A k \in DOMAIN eb.put.Config : eb.sent.Config[k] = eb.put.Config[k]
        /\ \A k \in DOMAIN eb.existing \ DOMAIN eb.put.Config :
              eb.sent.Config[k] = eb.existing[k]

C10_Witness ==
    /\ eb.updates = 1 /\ eb.err = ""
    /\ Get(eb.existing, "bridge.mtu") = Lit("1500")
    /\ Get(eb.existing, "ipv4.nat") = Lit("false")
    /\ eb.after.Config["bridge.mtu"] = Lit("1500")

(***************************************************************************)
(* C11: EnsureBridge's update is optimistic.  A call issues at most one    *)
(* UpdateNetwork; the update carries the token of the GetNetwork of the    *)
(* same call; when another writer has changed the bridge since that        *)
(* GetNetwork and the server answers, the update returns the conflict      *)
(* error and the bridge stays as the other writer left it.                 *)
(***************************************************************************)
C11_UpdateStep == eb.pc = "update" /\ eb'.pc = "done"

C11_Optimistic ==
    [][/\ eb'.updates <= 1
       /\ C11_UpdateStep =>
             /\ eb'.token.set
             /\ eb'.token.Config = eb.existing
             /\ (srvUp /\ srvNet.Config # eb.existing) =>
                    (eb'.err = "conflict" /\ srvNet' = srvNet)]_vars

\* the update met another client's bridge.mtu=9000 and was refused
C11_Witness ==
    /\ eb.pc = "done" /\ eb.updates = 1 /\ eb.err = "conflict"
    /\ Get(eb.existing, "bridge.mtu") # Lit("9000")
    /\ Get(srvNet.Config, "bridge.mtu") = Lit("9000")

(***************************************************************************)
(* C12: AttachCNI commits nothing on failure: when it returns an error,    *)
(* "result" in the sandbox's network configuration data is what it was     *)
(* before the call; the key changes only when the CNI attach succeeded.    *)
(***************************************************************************)
C12_AttachReturned == cni.op = "attach" /\ cni.pc = "done"

C12_NoPartialCommit ==
    C12_AttachReturned =>
        /\ cni.err # "" => sandbox.mem = cni.before.mem
        /\ sandbox.mem # cni.before.mem => cni.adds = 1 /\ cnet.state = "Attached"

(***************************************************************************)
(* C13: DetachCNI, once the sandbox is resolved: when the state lookup     *)
(* succeeds the CNI delete is invoked with its process ID; when it fails   *)
(* with not-found the CNI delete is invoked with process ID 0; when it     *)
(* fails otherwise that error is returned.  In both cases that go on the   *)
(* delete is invoked, also when the container record is gone.              *)
(***************************************************************************)
C13_DetachReturned == cni.op = "detach" /\ cni.pc = "done" /\ cni.looked

C13_DetachCleansUp ==
    C13_DetachReturned =>
        IF cni.st.err = ""
        THEN cni.dels = 1 /\ cni.delPid = cni.st.Pid
        ELSE IF cni.st.err = "not found"
        THEN cni.dels = 1 /\ cni.delPid = 0
        ELSE cni.dels = 0 /\ cni.err = cni.st.err

\* the container record is gone, the network is still attached, and the
\* delete ran with process ID 0
C13_Witness ==
    /\ C13_DetachReturned
    /\ cni.st.err = "not found"
    /\ cni.from.state = "Attached"
    /\ cni.dels = 1 /\ cni.delPid = 0 /\ cni.err = ""

(***************************************************************************)
(* C14: attaching a container whose process ID is 0 yields an error; no    *)
(* result is handed back or recorded, and the container network is in the  *)
(* state it was in, so it does not move from Unattached to Attached.       *)
(***************************************************************************)
C14_ZeroPidAttach ==
    /\ cni.op \in {"attach", "started"} /\ cni.pc = "done"
    /\ cni.looked /\ cni.st.err = "" /\ cni.pid = 0

C15_Deleted == cni.op = "deleted" /\ cni.pc = "done"

C15_TeardownSucceeds == C15_Deleted => (cni.err = "" /\ cnet.state = "TornDown")

\* torn down a second time, with no process ID
C15_Witness == C15_Deleted /\ cni.from.state = "TornDown" /\ cni.pid = 0

(***************************************************************************)
(* C16: Status on a container network that was never attached fails with   *)
(* not-found and hands back no data; Status hands back data only after a   *)
(* successful attach and only when the result payload is supplied.         *)
(***************************************************************************)
C16_StatusReturned == cni.op = "status" /\ cni.pc = "done"

C16_StatusNeedsAttach ==
    C16_StatusReturned =>
        /\ cni.from.state = "Unattached" => (cni.err = "not found" /\ cni.data = NoData)
        /\ cni.data # NoData =>
              (cni.err = "" /\ cni.from.state # "Unattached" /\ cni.props # "")

C16_Witness == C16_StatusReturned /\ cni.data # NoData /\ cni.props = sandbox.store

(***************************************************************************)
(* C17: FindFreeIPBridgeLXD on a bridge with a non-empty ipv4.dhcp.ranges  *)
(* returns the unsupported-configuration error and no address, fetches no  *)
(* leases and does not run the allocator; a failure of GetNetwork, of      *)
(* GetNetworkLeases or of parsing the bridge's address is returned with no *)
(* address as well.                                                        *)
(***************************************************************************)
\* FindFreeIPBridgeLXD returns an error and nil, and FindFreeIP has not run
C17_ErrorNoAddress == fb'.pc = "done" /\ fb'.err # "" /\ ffpc' = "idle" /\ ip' = nil

C17_ErrorsPropagate ==
    [][/\ (ClientIdle /\ fb'.pc # "idle" /\ srvUp /\ srvNet.exists
             /\ Get(srvNet.Config, "ipv4.dhcp.ranges") # Lit("")) =>
             (C17_ErrorNoAddress /\ fb'.err = "unsupported" /\ ~fb'.fetched)
       /\ (ClientIdle /\ fb'.pc # "idle" /\ (~srvUp \/ ~srvNet.exists)) =>
             (C17_ErrorNoAddress /\ ~fb'.fetched)
       /\ (fb.pc = "leases" /\ fb'.pc # "leases"
             /\ (~srvUp \/ Get(fb.config, "ipv4.address").kind # "cidr")) =>
             C17_ErrorNoAddress]_vars

\* refused for its explicit ranges while the server holds leases
C17_Witness ==
    /\ fb.pc = "done" /\ fb.err = "unsupported" /\ ~fb.fetched
    /\ srvLeases # <<>>
    /\ ffpc = "idle"

(***************************************************************************)
(* C18: nothing in FindFreeIPBridgeLXD reserves the address it returns: no *)
(* step of either caller changes the server's lease table or the bridge,   *)
(* so two callers that read the same leases can both be handed the same    *)
(* address (the witness).                                                  *)
(***************************************************************************)
C18_CallerStep ==
    (fb' # fb \/ ffpc' # ffpc \/ trial' # trial \/ second' # second) /\ others' = others

C18_NothingReserved ==
    [][C18_CallerStep => (srvLeases' = srvLeases /\ srvNet' = srvNet)]_vars

\* both callers hold the same address to return, read off the same lease
\* table, which is still the server's
C18_Witness ==
    /\ fb.pc = "alloc" /\ ffpc = "done"
    /\ second.pc = "returned"
    /\ SameAddr(ip, second.ip)
    /\ fb.raw = second.raw
    /\ fb.raw = [i \in 1..Len(srvLeases) |-> [Address |-> srvLeases[i]]]
    /\ Len(srvLeases) > 0

(***************************************************************************)
(* What the address properties speak of.                                   *)
(***************************************************************************)
\* a + 1 as a 32-bit integer, on the four bytes of a
PlusOne(a) ==
    IF a[4] < 255 THEN <<a[1], a[2], a[3], a[4] + 1>>
    ELSE IF a[3] < 255 THEN <<a[1], a[2], a[3] + 1, 0>>
    ELSE IF a[2] < 255 THEN <<a[1], a[2] + 1, 0, 0>>
    ELSE <<(a[1] + 1) % 256, 0, 0, 0>>

\* the network the cidr of the call names
CidrNet == [IP |-> eb.cidr.addr, Mask |-> CIDRMask(eb.cidr.bits)]

\* the desired ipv4.address is network + 1 with the cidr's prefix length,
\* and a usable host address of the cidr
FirstUsable ==
    LET address == eb.put.Config["ipv4.address"]
    IN  /\ address = CIDRText(PlusOne(NetworkAddr(CidrNet)), eb.cidr.bits)
        /\ InSubnet(address.addr, CidrNet)
        /\ address.addr # NetworkAddr(CidrNet)
        /\ address.addr # BroadcastAddr(CidrNet)

(***************************************************************************)
(* C19, as claimed: for every valid non-empty IPv4 cidr the ipv4.address   *)
(* EnsureBridge puts in the desired configuration is network + 1 (as a     *)
(* 32-bit integer) with the cidr's prefix length, a usable host address    *)
(* inside the cidr.                                                        *)
(***************************************************************************)
C19_FirstUsableAlways == eb.pc = "addressed" => FirstUsable

(***************************************************************************)
(* C19, amended: the same for every valid IPv4 cidr whose prefix length is *)
(* at most 30.                                                             *)
(***************************************************************************)
C19_FirstUsableUpTo30 == (eb.pc = "addressed" /\ eb.cidr.bits <= 30) => FirstUsable

C19_Witness ==
    /\ eb.pc = "addressed"
    /\ eb.cidr = CIDRText(<<10, 0, 255, 254>>, 30)
    /\ eb.put.Config["ipv4.address"] = CIDRText(<<10, 0, 255, 253>>, 30)

(***************************************************************************)
(* C20: FindFreeIP does not modify its subnet argument: while candidates   *)
(* are probed and after the call, with or without explicit start and end,  *)
(* the subnet's address and mask are what the caller passed, and the two   *)
(* addresses appended to the reserved list are base & mask and             *)
(* base | ~mask.                                                           *)
(***************************************************************************)
C20_SubnetUnchanged ==
    ffpc \in {"probing", "done"} =>
        /\ subnet = call.subnet
        /\ Len(leases) = Len(call.leases) + 2
        /\ SameAddr(leases[Len(leases) - 1], NetworkAddr(call.subnet))
        /\ SameAddr(leases[Len(leases)], BroadcastAddr(call.subnet))

====
